---- MODULE Spec2Model ----
(***************************************************************************)
(* Model of source/memBenchmark.h: the memory-copy bandwidth benchmark.    *)
(* The header exposes four functions, profileH2HCopies, profileCopies,     *)
(* profileD2DCopies and memBenchmark.  The model follows the control flow  *)
(* of each statement by statement.  Buffers are sequences of float bit     *)
(* patterns; every CUDA call may return a failure code, which the release  *)
(* build of checkCuda ignores.  Measured times and bandwidth values are    *)
(* not modelled: a report line is modelled by its text without the value.  *)
(***************************************************************************)
EXTENDS Integers, Sequences, FiniteSets, TLC

\* ------------------------------------------------------------------ bounds
\* element count of the buffers (nElements is 16 * 256 * 1024 in the source)
NElems == 2

\* ------------------------------------------------------- program constants
SizeofFloat == 4
UIntBits == 32
H2HWarmUp == 32
H2HIters == 100
CopiesWarmUp == 16
D2DWarmUp == 16
D2DIters == 100

\* ----------------------------------------------------------------- values
\* a float bit pattern that is a NaN: it compares unequal to everything
NaN == 0 - 1

\* C's != on two floats
FloatNe(x, y) == (x = NaN) \/ (y = NaN) \/ (x # y)

Zeros == [k \in 1..NElems |-> 0]

\* for (i = 0; i < nElements; ++i) h_aPageable[i] = (float)i;
Iota == [k \in 1..NElems |-> k - 1]

\* contents an uninitialised buffer may hold: all zero, NaN everywhere, or
\* zero up to a NaN in the last element
Garbage ==
  {Zeros, [k \in 1..NElems |-> NaN], [k \in 1..NElems |-> IF k = NElems THEN NaN ELSE 0]}

\* what a read of a buffer with content c may see: an indeterminate content
\* (<<>>) is fixed, to any garbage, by the first read
Observed(c) == IF c = <<>> THEN Garbage ELSE {c}

\* contents a caller may pass to one of the profiling functions
Contents == Garbage \cup {Iota, [k \in 1..NElems |-> 1]}

\* ---------------------------------------------------------------- buffers
HostLong == {"h_aPageable", "h_bPageable", "h_aPinned", "h_bPinned"}
DevLong == {"d_a", "d_b"}
LongLived == HostLong \cup DevLong
\* the two locals h_a, h_b of profileD2DCopies
Temps == {"tmp_h_a", "tmp_h_b"}
Bufs == LongLived \cup Temps

\* the five calls of memBenchmark, in source order
Phases == <<"h2hPageable", "h2hPinned", "pageable", "pinned", "d2d">>

VARIABLES
  caller,     \* "memBenchmark", or "direct" when a profiling function is called directly
  phase,      \* index in Phases of the current call (6 after the last one)
  pc,         \* control location
  n,          \* the argument n of the current call
  allocated,  \* outstanding allocations (host and device)
  mem,        \* content of each buffer
  liveEvents, \* number of live CUDA event objects
  handles,    \* the locals startEvent/stopEvent that hold a live event
  created,    \* number of events the current call has created
  log,        \* timing-relevant calls issued by the current call, in order
  out,        \* lines written to stdout
  released,   \* release calls made by memBenchmark, in order
  ret,        \* <<>> while running, <<status>> once memBenchmark returned
  entry,      \* content of the second argument at entry of profileH2HCopies
  copyFailed, \* some cudaMemcpy of the current call returned a failure code
  compared    \* the current call ran its verification loop

vars == <<caller, phase, pc, n, allocated, mem, liveEvents, handles, created, log,
          out, released, ret, entry, copyFailed, compared>>

\* ------------------------------------------------------------ call sites
\* the host arguments (h_a, h_b) and the device argument of the current call
ArgA == IF Phases[phase] \in {"h2hPageable", "pageable"} THEN "h_aPageable" ELSE "h_aPinned"
ArgB == IF Phases[phase] \in {"h2hPageable", "pageable"} THEN "h_bPageable" ELSE "h_bPinned"
Desc == IF Phases[phase] \in {"h2hPageable", "pageable"} THEN "Pageable" ELSE "Pinned"

EntryPc(p) ==
  CASE p \in {"h2hPageable", "h2hPinned"} -> "h2h_warm"
    [] p \in {"pageable", "pinned"} -> "pc_warm"
    [] OTHER -> "dd_warm"

\* -------------------------------------------------------------- helpers
\* unsigned int bytes = n * sizeof(float): the product modulo 2^32, written
\* as 4 * (n mod 2^30) because 2^32 is beyond TLC's integers
Bytes(cnt) == SizeofFloat * (cnt % (2 ^ (UIntBits - 2)))

\* a memcpy that stops one element early
MemcpyShort(dst, src, bytes) ==
  [k \in 1..Len(dst) |-> IF k < bytes \div SizeofFloat THEN src[k] ELSE dst[k]]

\* memcpy(dst, src, bytes) on float buffers: the first bytes/4 elements
Memcpy(dst, src, bytes) ==
  [k \in 1..Len(dst) |-> IF k <= bytes \div SizeofFloat THEN src[k] ELSE dst[k]]

\* append to the log, keeping one entry for a run of consecutive copies
Logged(l, e) ==
  IF e = "copy" /\ l # <<>> /\ l[Len(l)] = "copy" THEN l ELSE Append(l, e)

\* the verification loop: the lines it prints, comparing from index k on
RECURSIVE VerifyFrom(_, _, _, _, _)
VerifyFrom(a, b, cnt, k, line) ==
  IF k > cnt THEN <<>>
  ELSE IF FloatNe(a[k], b[k]) THEN <<line>>
  ELSE VerifyFrom(a, b, cnt, k + 1, line)

\* a pointer the CUDA runtime accepts: one with an allocation behind it, or a
\* host pointer that host code has already written through
Usable(b) == b \in allocated \/ b \in HostLong

\* The part of the state a copy loop works on: the buffers, and whether a
\* cudaMemcpy has returned a failure code.
\* checkCuda(cudaMemcpy(dst, src, bytes, kind)) from st: the copy is done, or
\* the call returns a failure code, which is ignored, and the destination is
\* untouched.  A pointer the runtime rejects makes the call fail.
CudaMemcpy(st, dst, src) ==
  (IF Usable(dst) /\ Usable(src)
     THEN {[mem |-> [st.mem EXCEPT ![src] = s, ![dst] = Memcpy(d, s, Bytes(n))],
            failed |-> st.failed] :
             s \in Observed(st.mem[src]), d \in Observed(st.mem[dst])}
     ELSE {})
  \cup {[mem |-> st.mem, failed |-> TRUE]}

\* the copies of one loop body, in order, from any of the states S;
\* copies is a sequence of <<dst, src>>
RECURSIVE CopySeq(_, _)
CopySeq(S, copies) ==
  IF copies = <<>> THEN S
  ELSE CopySeq(UNION {CudaMemcpy(st, copies[1][1], copies[1][2]) : st \in S},
               Tail(copies))

\* for (int i = 0; i < k; i++) { copies }: the k iterations are run as the
\* first k \div 2 followed by the rest; binding the intermediate result T
\* keeps the evaluation shallow
RECURSIVE CopyLoop(_, _, _)
CopyLoop(S, copies, k) ==
  IF k = 0 THEN S
  ELSE IF k = 1 THEN CopySeq(S, copies)
  ELSE UNION {CopyLoop(T, copies, k - k \div 2) : T \in {CopyLoop(S, copies, k \div 2)}}

\* for (int i = 0; i < k; i++) memcpy(dst, src, bytes): the content of dst
RECURSIVE MemcpyLoop(_, _, _, _)
MemcpyLoop(dst, src, bytes, k) ==
  IF k = 0 THEN dst
  ELSE IF k = 1 THEN Memcpy(dst, src, bytes)
  ELSE CHOOSE r \in {MemcpyLoop(t, src, bytes, k - k \div 2) :
                       t \in {MemcpyLoop(dst, src, bytes, k \div 2)}} : TRUE

\* an action's copies: the loop (or single copy) is run from the current state
DoCopies(copies, k) ==
  /\ \E r \in CopyLoop({[mem |-> mem, failed |-> copyFailed]}, copies, k) :
       /\ mem' = r.mem
       /\ copyFailed' = r.failed
  /\ log' = Logged(log, "copy")

\* cudaEventCreate(&startEvent); cudaEventCreate(&stopEvent): each creates an
\* event, or fails and leaves its handle without one
CudaEventCreate2(from, to) ==
  /\ pc = from
  /\ \E made \in SUBSET {"startEvent", "stopEvent"} :
       /\ handles' = made
       /\ created' = Cardinality(made)
       /\ liveEvents' = liveEvents + Cardinality(made)
  /\ pc' = to
  /\ UNCHANGED <<caller, phase, n, allocated, mem, log, out, released, ret,
                 entry, copyFailed, compared>>

\* cudaEventRecord / cudaEventSynchronize: the call is issued, its result ignored
CudaEventCall(from, to, what) ==
  /\ pc = from
  /\ log' = Logged(log, what)
  /\ pc' = to
  /\ UNCHANGED <<caller, phase, n, allocated, mem, liveEvents, handles, created, out,
                 released, ret, entry, copyFailed, compared>>

\* cudaEventElapsedTime(&time, startEvent, stopEvent) and the lines between it
\* and the next call; lines is what they print
CudaEventElapsed(from, to, lines) ==
  /\ pc = from
  /\ log' = Logged(log, "elapsed")
  /\ out' = out \o lines
  /\ pc' = to
  /\ UNCHANGED <<caller, phase, n, allocated, mem, liveEvents, handles, created,
                 released, ret, entry, copyFailed, compared>>

\* a clean-up that destroys startEvent only
CudaEventDestroyStartOnly(from, to) ==
  /\ pc = from
  /\ liveEvents' = liveEvents - Cardinality(handles \cap {"startEvent"})
  /\ handles' = handles \ {"startEvent"}
  /\ pc' = to
  /\ UNCHANGED <<caller, phase, n, allocated, mem, created, log, out, released,
                 ret, entry, copyFailed, compared>>

\* cudaEventDestroy(startEvent); cudaEventDestroy(stopEvent): a handle that
\* holds an event releases it; on a handle without one the call only fails
CudaEventDestroy2(from, to) ==
  /\ pc = from
  /\ liveEvents' = liveEvents - Cardinality(handles)
  /\ handles' = {}
  /\ pc' = to
  /\ UNCHANGED <<caller, phase, n, allocated, mem, created, log, out, released,
                 ret, entry, copyFailed, compared>>

CallStart ==
  /\ log' = <<>>
  /\ copyFailed' = FALSE
  /\ compared' = FALSE
  /\ handles' = {}
  /\ created' = 0

\* ------------------------------------------------------------------ Init
\* memBenchmark is entered
InitSuite ==
  /\ caller = "memBenchmark"
  /\ phase = 1
  /\ pc = "mb_alloc"
  /\ n = NElems
  /\ allocated = {}
  /\ mem = [b \in Bufs |-> <<>>]
  /\ entry = <<>>

\* one of the profiling functions is entered directly, on buffers of NElems
\* elements with any content, for a count n of at most NElems
InitDirect ==
  /\ caller = "direct"
  /\ phase \in {1, 3, 5}
  /\ pc = EntryPc(Phases[phase])
  /\ n \in 1..NElems
  /\ \E a \in Contents, b \in Garbage, d \in Garbage :
       /\ phase = 1 =>
            /\ allocated = {"h_aPageable", "h_bPageable"}
            /\ mem = [x \in Bufs |-> CASE x = "h_aPageable" -> a
                                       [] x = "h_bPageable" -> b
                                       [] OTHER -> <<>>]
            /\ entry = b
       /\ phase = 3 =>
            /\ allocated = {"h_aPageable", "h_bPageable", "d_a"}
            /\ mem = [x \in Bufs |-> CASE x = "h_aPageable" -> a
                                       [] x = "h_bPageable" -> b
                                       [] x = "d_a" -> d
                                       [] OTHER -> <<>>]
            /\ entry = <<>>
       /\ phase = 5 =>
            /\ allocated = {"d_a", "d_b"}
            /\ mem = [x \in Bufs |-> CASE x = "d_a" -> a
                                       [] x = "d_b" -> b
                                       [] OTHER -> <<>>]
            /\ entry = <<>>

Init ==
  /\ InitSuite \/ InitDirect
  /\ liveEvents = 0
  /\ handles = {}
  /\ created = 0
  /\ log = <<>>
  /\ out = <<>>
  /\ released = <<>>
  /\ ret = <<>>
  /\ copyFailed = FALSE
  /\ compared = FALSE

\* ---------------------------------------------------------- memBenchmark
\* lines 190-195: the six allocations; checkCuda ignores a failure, which
\* leaves the pointer without an allocation behind it.  The content of a new
\* buffer is indeterminate (<<>>) until it is written or first read.
MB_Allocate ==
  /\ pc = "mb_alloc"
  /\ \E failing \in SUBSET LongLived : allocated' = LongLived \ failing
  /\ pc' = "mb_init"
  /\ UNCHANGED <<caller, phase, n, mem, liveEvents, handles, created, log, out,
                 released, ret, entry, copyFailed, compared>>

\* lines 197-201: host code writes through the four host pointers.  Writing
\* through a pointer with no allocation behind it is undefined: the process
\* dies, or the write lands in mapped memory and execution continues.  g is
\* what h_aPinned holds before line 199 overwrites it.
MB_InitBuffers ==
  /\ pc = "mb_init"
  /\ \/ /\ \E g \in Garbage :
             mem' = [mem EXCEPT !["h_aPageable"] = Iota,
                                !["h_aPinned"] = Memcpy(g, Iota, Bytes(NElems)),
                                !["h_bPageable"] = Zeros,
                                !["h_bPinned"] = Zeros]
        /\ pc' = "mb_info"
     \/ /\ ~(HostLong \subseteq allocated)
        /\ pc' = "crashed"
        /\ mem' = mem
  /\ UNCHANGED <<caller, phase, n, allocated, liveEvents, handles, created, log, out,
                 released, ret, entry, copyFailed, compared>>

\* lines 203-208
MB_DeviceInfo ==
  /\ pc = "mb_info"
  /\ out' = out \o <<"Device:", "Transfer size (MB):">>
  /\ pc' = "mb_call"
  /\ UNCHANGED <<caller, phase, n, allocated, mem, liveEvents, handles, created, log,
                 released, ret, entry, copyFailed, compared>>

\* lines 211-213, 216-218, 221-222, 225-226, 229-230: nvtxRangeStart and the call
MB_Call ==
  /\ pc = "mb_call"
  /\ pc' = EntryPc(Phases[phase])
  /\ n' = NElems
  /\ entry' = IF Phases[phase] \in {"h2hPageable", "h2hPinned"} THEN mem[ArgB] ELSE <<>>
  /\ CallStart
  /\ UNCHANGED <<caller, phase, allocated, mem, liveEvents, out, released, ret>>

\* lines 214, 219, 223, 227, 231: the call returned, nvtxRangeEnd
MB_Return ==
  /\ pc = "ret"
  /\ caller = "memBenchmark"
  /\ phase' = phase + 1
  /\ pc' = IF phase = Len(Phases) THEN "mb_cleanup" ELSE "mb_call"
  /\ UNCHANGED <<caller, n, allocated, mem, liveEvents, handles, created, log, out,
                 released, ret, entry, copyFailed, compared>>

\* the release calls of lines 236-240, in order
CleanupCalls == <<"d_a", "h_aPinned", "h_bPinned", "h_aPageable", "h_bPageable">>

\* lines 233-240: a release call on a pointer with no allocation behind it
\* releases nothing
MB_Cleanup ==
  /\ pc = "mb_cleanup"
  /\ out' = Append(out, "")
  /\ released' = released \o CleanupCalls
  /\ allocated' = allocated \ {CleanupCalls[k] : k \in 1..Len(CleanupCalls)}
  /\ pc' = "mb_reset"
  /\ UNCHANGED <<caller, phase, n, mem, liveEvents, handles, created, log, ret, entry,
                 copyFailed, compared>>

\* line 242: cudaDeviceReset destroys what the device context still owns:
\* device and pinned allocations, and events
MB_DeviceReset ==
  /\ pc = "mb_reset"
  /\ allocated' = allocated \cap {"h_aPageable", "h_bPageable"}
  /\ liveEvents' = 0
  /\ pc' = "mb_return"
  /\ UNCHANGED <<caller, phase, n, mem, handles, created, log, out, released, ret,
                 entry, copyFailed, compared>>

\* line 244
MB_ReturnZero ==
  /\ pc = "mb_return"
  /\ ret' = <<0>>
  /\ pc' = "returned"
  /\ UNCHANGED <<caller, phase, n, allocated, mem, liveEvents, handles, created, log,
                 out, released, entry, copyFailed, compared>>

NextSuite ==
  \/ MB_Allocate \/ MB_InitBuffers \/ MB_DeviceInfo \/ MB_Call \/ MB_Return
  \/ MB_Cleanup \/ MB_DeviceReset \/ MB_ReturnZero

\* ------------------------------------------------------ profileH2HCopies
\* a warm-up loop that copies from h_a to h_b
H2H_WarmUpFromSource ==
  /\ pc = "h2h_warm"
  /\ out' = Append(out, "Host to Host " \o Desc \o " Memcpy")
  /\ mem' = [mem EXCEPT ![ArgB] = MemcpyLoop(mem[ArgB], mem[ArgA], Bytes(n), H2HWarmUp)]
  /\ pc' = "h2h_timed1"
  /\ UNCHANGED <<caller, phase, n, allocated, liveEvents, handles, created, log,
                 released, ret, entry, copyFailed, compared>>

\* lines 45-50: the header, and the warm-up loop
\*   for (int i = 0; i < 32; i++) memcpy(h_a, h_b, bytes);
H2H_WarmUp ==
  /\ pc = "h2h_warm"
  /\ out' = Append(out, "Host to Host " \o Desc \o " Memcpy")
  /\ mem' = [mem EXCEPT ![ArgA] = MemcpyLoop(mem[ArgA], mem[ArgB], Bytes(n), H2HWarmUp)]
  /\ pc' = "h2h_timed1"
  /\ UNCHANGED <<caller, phase, n, allocated, liveEvents, handles, created, log,
                 released, ret, entry, copyFailed, compared>>

\* lines 52-58: for (int i = 0; i < iters; i++) memcpy(h_a, h_b, bytes);
H2H_Timed1 ==
  /\ pc = "h2h_timed1"
  /\ mem' = [mem EXCEPT ![ArgA] = MemcpyLoop(mem[ArgA], mem[ArgB], Bytes(n), H2HIters)]
  /\ pc' = "h2h_timed2"
  /\ UNCHANGED <<caller, phase, n, allocated, liveEvents, handles, created, log, out,
                 released, ret, entry, copyFailed, compared>>

\* lines 60-64: for (int i = 0; i < iters; i++) memcpy(h_b, h_a, bytes);
H2H_Timed2 ==
  /\ pc = "h2h_timed2"
  /\ mem' = [mem EXCEPT ![ArgB] = MemcpyLoop(mem[ArgB], mem[ArgA], Bytes(n), H2HIters)]
  /\ pc' = "h2h_print"
  /\ UNCHANGED <<caller, phase, n, allocated, liveEvents, handles, created, log, out,
                 released, ret, entry, copyFailed, compared>>

\* lines 66-67: the bandwidth line, and the function returns
H2H_Print ==
  /\ pc = "h2h_print"
  /\ out' = Append(out, "  Host to Host bandwidth (GB/s):")
  /\ pc' = "ret"
  /\ UNCHANGED <<caller, phase, n, allocated, mem, liveEvents, handles, created, log,
                 released, ret, entry, copyFailed, compared>>

NextH2H == H2H_WarmUp \/ H2H_Timed1 \/ H2H_Timed2 \/ H2H_Print

\* --------------------------------------------------------- profileCopies
\* lines 71-79: the header, and the warm-up loop of 16 round trips
PC_WarmUp ==
  /\ pc = "pc_warm"
  /\ out' = Append(out, Desc \o " transfers")
  /\ DoCopies(<< <<"d_a", ArgA>>, <<ArgB, "d_a">> >>, CopiesWarmUp)
  /\ pc' = "pc_create"
  /\ UNCHANGED <<caller, phase, n, allocated, liveEvents, handles, created, released,
                 ret, entry, compared>>

\* lines 82-85
PC_CreateEvents == CudaEventCreate2("pc_create", "pc_rec1")

\* line 87
PC_RecordStart1 == CudaEventCall("pc_rec1", "pc_h2d", "record_start")

\* line 88: cudaMemcpy(d, h_a, bytes, cudaMemcpyHostToDevice)
PC_TimedH2D ==
  /\ pc = "pc_h2d"
  /\ DoCopies(<< <<"d_a", ArgA>> >>, 1)
  /\ pc' = "pc_stop1"
  /\ UNCHANGED <<caller, phase, n, allocated, liveEvents, handles, created, out,
                 released, ret, entry, compared>>

\* line 89
PC_RecordStop1 == CudaEventCall("pc_stop1", "pc_sync1", "record_stop")

\* line 90
PC_Synchronize1 == CudaEventCall("pc_sync1", "pc_time1", "sync")

\* lines 92-94
PC_Elapsed1 ==
  CudaEventElapsed("pc_time1", "pc_rec2", <<"  Host to Device bandwidth (GB/s):">>)

\* line 96
PC_RecordStart2 == CudaEventCall("pc_rec2", "pc_d2h", "record_start")

\* line 97: cudaMemcpy(h_b, d, bytes, cudaMemcpyDeviceToHost)
PC_TimedD2H ==
  /\ pc = "pc_d2h"
  /\ DoCopies(<< <<ArgB, "d_a">> >>, 1)
  /\ pc' = "pc_stop2"
  /\ UNCHANGED <<caller, phase, n, allocated, liveEvents, handles, created, out,
                 released, ret, entry, compared>>

\* line 98
PC_RecordStop2 == CudaEventCall("pc_stop2", "pc_sync2", "record_stop")

\* line 99
PC_Synchronize2 == CudaEventCall("pc_sync2", "pc_time2", "sync")

\* lines 101-102
PC_Elapsed2 ==
  CudaEventElapsed("pc_time2", "pc_verify", <<"  Device to Host bandwidth (GB/s):">>)

\* lines 104-109: the failure line is printed at the first mismatch
PC_Verify ==
  /\ pc = "pc_verify"
  /\ out' = out \o VerifyFrom(mem[ArgA], mem[ArgB], n, 1,
                              "*** " \o Desc \o " transfers failed ***")
  /\ compared' = TRUE
  /\ pc' = "pc_destroy"
  /\ UNCHANGED <<caller, phase, n, allocated, mem, liveEvents, handles, created, log,
                 released, ret, entry, copyFailed>>

\* lines 111-114
PC_DestroyEvents == CudaEventDestroy2("pc_destroy", "ret")

NextCopies ==
  \/ PC_WarmUp \/ PC_CreateEvents
  \/ PC_RecordStart1 \/ PC_TimedH2D \/ PC_RecordStop1 \/ PC_Synchronize1
  \/ PC_Elapsed1 \/ PC_RecordStart2 \/ PC_TimedD2H \/ PC_RecordStop2
  \/ PC_Synchronize2 \/ PC_Elapsed2 \/ PC_Verify \/ PC_DestroyEvents

\* ------------------------------------------------------ profileD2DCopies
\* lines 117-125: the header, and the warm-up loop of 16 round trips
DD_WarmUp ==
  /\ pc = "dd_warm"
  /\ out' = Append(out, "Device to Device Memcpy")
  /\ DoCopies(<< <<"d_b", "d_a">>, <<"d_a", "d_b">> >>, D2DWarmUp)
  /\ pc' = "dd_create"
  /\ UNCHANGED <<caller, phase, n, allocated, liveEvents, handles, created, released,
                 ret, entry, compared>>

\* lines 128-131
DD_CreateEvents == CudaEventCreate2("dd_create", "dd_rec1")

\* line 133
DD_RecordStart1 == CudaEventCall("dd_rec1", "dd_loop1", "record_start")

\* lines 134-135: for (i = 0; i < iters; i++) cudaMemcpy(d_b, d_a, ...)
DD_TimedAB ==
  /\ pc = "dd_loop1"
  /\ DoCopies(<< <<"d_b", "d_a">> >>, D2DIters)
  /\ pc' = "dd_stop1"
  /\ UNCHANGED <<caller, phase, n, allocated, liveEvents, handles, created, out,
                 released, ret, entry, compared>>

\* line 136
DD_RecordStop1 == CudaEventCall("dd_stop1", "dd_sync1", "record_stop")

\* a first timed region whose cudaEventSynchronize is missing
DD_NoSynchronize1 ==
  /\ pc = "dd_sync1"
  /\ pc' = "dd_time1"
  /\ UNCHANGED <<caller, phase, n, allocated, mem, liveEvents, handles, created,
                 log, out, released, ret, entry, copyFailed, compared>>

\* line 137
DD_Synchronize1 == CudaEventCall("dd_sync1", "dd_time1", "sync")

\* lines 139-142
DD_Elapsed1 == CudaEventElapsed("dd_time1", "dd_rec2", <<>>)

\* line 144
DD_RecordStart2 == CudaEventCall("dd_rec2", "dd_loop2", "record_start")

\* lines 145-146: for (i = 0; i < iters; i++) cudaMemcpy(d_a, d_b, ...)
DD_TimedBA ==
  /\ pc = "dd_loop2"
  /\ DoCopies(<< <<"d_a", "d_b">> >>, D2DIters)
  /\ pc' = "dd_stop2"
  /\ UNCHANGED <<caller, phase, n, allocated, liveEvents, handles, created, out,
                 released, ret, entry, compared>>

\* line 147
DD_RecordStop2 == CudaEventCall("dd_stop2", "dd_sync2", "record_stop")

\* line 148
DD_Synchronize2 == CudaEventCall("dd_sync2", "dd_time2", "sync")

\* lines 150-154
DD_Elapsed2 ==
  CudaEventElapsed("dd_time2", "dd_alloc", <<"  Device to Device bandwidth (GB/s):">>)

\* lines 156-160: the two cudaMallocHost of the locals h_a and h_b
DD_AllocTemps ==
  /\ pc = "dd_alloc"
  /\ \E failing \in SUBSET Temps : allocated' = allocated \cup (Temps \ failing)
  /\ pc' = "dd_readback"
  /\ UNCHANGED <<caller, phase, n, mem, liveEvents, handles, created, log, out,
                 released, ret, entry, copyFailed, compared>>

\* lines 161-162: cudaMemcpy(h_a, d_a, ...); cudaMemcpy(h_b, d_b, ...)
DD_ReadBack ==
  /\ pc = "dd_readback"
  /\ DoCopies(<< <<"tmp_h_a", "d_a">>, <<"tmp_h_b", "d_b">> >>, 1)
  /\ pc' = "dd_verify"
  /\ UNCHANGED <<caller, phase, n, allocated, liveEvents, handles, created, out,
                 released, ret, entry, compared>>

\* lines 164-169: host code reads through h_a and h_b.  Reading through a
\* pointer with no allocation behind it is undefined: the process dies, or
\* the read sees whatever is mapped there.
DD_Verify ==
  /\ pc = "dd_verify"
  /\ \/ /\ \E a \in Observed(mem["tmp_h_a"]), b \in Observed(mem["tmp_h_b"]) :
             out' = out \o VerifyFrom(a, b, n, 1,
                                      "*** Device to device transfers failed ***")
        /\ compared' = TRUE
        /\ pc' = "dd_destroy"
     \/ /\ ~(Temps \subseteq allocated)
        /\ pc' = "crashed"
        /\ UNCHANGED <<out, compared>>
  /\ UNCHANGED <<caller, phase, n, allocated, mem, liveEvents, handles, created, log,
                 released, ret, entry, copyFailed>>

\* lines 171-175: the function returns without releasing h_a and h_b
DD_DestroyEvents == CudaEventDestroy2("dd_destroy", "ret")

NextD2D ==
  \/ DD_WarmUp \/ DD_CreateEvents
  \/ DD_RecordStart1 \/ DD_TimedAB \/ DD_RecordStop1 \/ DD_Synchronize1
  \/ DD_Elapsed1 \/ DD_RecordStart2 \/ DD_TimedBA \/ DD_RecordStop2
  \/ DD_Synchronize2 \/ DD_Elapsed2 \/ DD_AllocTemps \/ DD_ReadBack
  \/ DD_Verify \/ DD_DestroyEvents

Next == NextSuite \/ NextH2H \/ NextCopies \/ NextD2D

Spec == Init /\ [][Next]_vars

\* ===================================================================
\* Properties
\* ===================================================================
InSuite == caller = "memBenchmark"

\* the process is over: memBenchmark returned, or the process died
Halted == pc \in {"returned", "crashed"}

FailureLines ==
  {"*** Pageable transfers failed ***", "*** Pinned transfers failed ***",
   "*** Device to device transfers failed ***"}

Occurrences(seq, x) == Cardinality({k \in DOMAIN seq : seq[k] = x})

NotFailureLine(l) == l \notin FailureLines

\* stdout without the failure lines
Report == SelectSeq(out, NotFailureLine)

\* the device and size lines, then the five blocks in source order
ExpectedReport ==
  <<"Device:", "Transfer size (MB):",
    "Host to Host Pageable Memcpy", "  Host to Host bandwidth (GB/s):",
    "Host to Host Pinned Memcpy", "  Host to Host bandwidth (GB/s):",
    "Pageable transfers", "  Host to Device bandwidth (GB/s):",
    "  Device to Host bandwidth (GB/s):",
    "Pinned transfers", "  Host to Device bandwidth (GB/s):",
    "  Device to Host bandwidth (GB/s):",
    "Device to Device Memcpy", "  Device to Device bandwidth (GB/s):", "">>

\* the call in progress is one of profileH2HCopies / profileCopies / profileD2DCopies
InH2H == phase <= Len(Phases) /\ Phases[phase] \in {"h2hPageable", "h2hPinned"}
InCopies == phase <= Len(Phases) /\ Phases[phase] \in {"pageable", "pinned"}
InD2D == phase <= Len(Phases) /\ Phases[phase] = "d2d"

\* the first cnt elements of a and b hold the same bit patterns
SameBits(a, b, cnt) == \A k \in 1..cnt : a[k] = b[k]

HasNaN(a, cnt) == \E k \in 1..cnt : a[k] = NaN

\* the verification loop of the current call has just run without any of
\* the call's copies having failed
VerifiedAfterGoodCopies == pc \in {"pc_destroy", "dd_destroy"} /\ ~copyFailed

\* the two buffers the current call's verification loop compares
VerifySrc == IF InCopies THEN mem[ArgA] ELSE mem["tmp_h_a"]
VerifyDst == IF InCopies THEN mem[ArgB] ELSE mem["tmp_h_b"]

\* in profileD2DCopies the compared buffers hold what d_a and d_b hold
ReadBackFaithful ==
  InD2D => /\ SameBits(mem["tmp_h_a"], mem["d_a"], n)
           /\ SameBits(mem["tmp_h_b"], mem["d_b"], n)

PrintedFailure == out # <<>> /\ out[Len(out)] \in FailureLines

\* C1: when the release calls of memBenchmark are done and the device is
\* about to be reset, each of the six long-lived buffers has been released
\* exactly once and no allocation of the suite is outstanding.
C1_AllReleasedBeforeReset ==
  (InSuite /\ pc = "mb_reset") =>
    /\ \A b \in LongLived : Occurrences(released, b) = 1
    /\ allocated = {}

\* the two malloc calls succeeded (their buffers are outstanding until the
\* cleanup, which a run that died has not reached)
MallocsSucceeded == pc = "crashed" => {"h_aPageable", "h_bPageable"} \subseteq allocated

\* C2: every run of memBenchmark ends having printed the device and size
\* lines and then exactly the five report blocks in the fixed order,
\* whatever the verifications found and whatever CUDA calls failed.
C2_FiveBlocksEveryRun ==
  (InSuite /\ Halted /\ MallocsSucceeded) => Report = ExpectedReport

\* C3: once a verification has printed a failure line, the run is not
\* aborted: it ends with memBenchmark returning 0, every later phase run,
\* no event left alive, and each failure line printed at most once.
C3_MismatchDoesNotAbort ==
  (InSuite /\ Halted /\ MallocsSucceeded
     /\ \E l \in FailureLines : Occurrences(out, l) > 0) =>
    /\ pc = "returned" /\ ret = <<0>>
    /\ liveEvents = 0
    /\ Report = ExpectedReport
    /\ \A l \in FailureLines : Occurrences(out, l) <= 1

\* C4 as stated: after a call whose copies all succeeded, the destination
\* equals the source element for element and no failure line is printed.
C4_NoFailureAfterGoodCopies ==
  VerifiedAfterGoodCopies =>
    /\ SameBits(VerifyDst, VerifySrc, n)
    /\ ReadBackFaithful
    /\ ~PrintedFailure

\* C4 amended: after a call whose copies all succeeded, the destination
\* holds the source's bit patterns in its first n elements, and no failure
\* line is printed unless one of those elements is a NaN.
C4_RoundTripFidelity ==
  VerifiedAfterGoodCopies =>
    /\ SameBits(VerifyDst, VerifySrc, n)
    /\ ReadBackFaithful
    /\ (~HasNaN(VerifySrc, n) => ~PrintedFailure)
    /\ (HasNaN(VerifySrc, n) => PrintedFailure)

\* an exact round trip of NaN-free data in profileCopies, verified silently
C4_Witness ==
  /\ VerifiedAfterGoodCopies
  /\ InCopies
  /\ caller = "direct"
  /\ mem[ArgA] = Iota
  /\ mem[ArgB] = Iota
  /\ n = NElems
  /\ ~PrintedFailure

\* C5: whatever CUDA allocation, copy and event calls fail, memBenchmark
\* runs its five phases, reaches cleanup and returns 0.
C5_AlwaysReturnsZero ==
  (InSuite /\ Halted /\ MallocsSucceeded) =>
    (pc = "returned" /\ ret = <<0>> /\ phase = Len(Phases) + 1)

\* C6: when profileD2DCopies returns, the two pinned buffers it allocated
\* are no longer outstanding.
C6_TempsReleasedAtReturn ==
  (pc = "ret" /\ InD2D) => allocated \cap Temps = {}

\* C7: each of the five phases has compared destination with source by the
\* time its call returns.
C7_EveryPhaseVerifies ==
  pc = "ret" => compared

\* the locations from the creation of the events to their destruction, and
\* the death of the process
EventSpan ==
  {"pc_rec1", "pc_h2d", "pc_stop1", "pc_sync1", "pc_time1", "pc_rec2", "pc_d2h",
   "pc_stop2", "pc_sync2", "pc_time2", "pc_verify", "pc_destroy",
   "dd_rec1", "dd_loop1", "dd_stop1", "dd_sync1", "dd_time1", "dd_rec2",
   "dd_loop2", "dd_stop2", "dd_sync2", "dd_time2", "dd_alloc", "dd_readback",
   "dd_verify", "dd_destroy", "crashed"}

RECURSIVE WellTimed(_, _, _)
WellTimed(l, k, st) ==
  IF k > Len(l) THEN TRUE
  ELSE CASE st = "idle" /\ l[k] = "copy" -> WellTimed(l, k + 1, "idle")
         [] st = "idle" /\ l[k] = "record_start" -> WellTimed(l, k + 1, "started")
         [] st = "started" /\ l[k] = "copy" -> WellTimed(l, k + 1, "copied")
         [] st = "copied" /\ l[k] = "record_stop" -> WellTimed(l, k + 1, "stopped")
         [] st = "stopped" /\ l[k] = "sync" -> WellTimed(l, k + 1, "synced")
         [] st = "synced" /\ l[k] = "elapsed" -> WellTimed(l, k + 1, "idle")
         [] OTHER -> FALSE

TimedRegion == <<"record_start", "copy", "record_stop", "sync", "elapsed">>

\* C9: in the timing calls of a device-involved call, a timed region is
\* record start, the timed copies, record stop, synchronise, read the
\* elapsed time, in that order; regions do not overlap and no copy comes
\* between the stop record and the read.
C9_TimedRegionOrder ==
  /\ WellTimed(log, 1, "idle")
  /\ (pc = "ret" /\ InCopies) => log = <<"copy">> \o TimedRegion \o TimedRegion
  /\ (pc = "ret" /\ InD2D) => log = <<"copy">> \o TimedRegion \o TimedRegion \o <<"copy">>

\* both timed regions of profileD2DCopies have been run
C9_Witness ==
  /\ pc = "dd_alloc"
  /\ InSuite
  /\ log = <<"copy">> \o TimedRegion \o TimedRegion

\* C10: when profileH2HCopies returns, the first n elements of both buffers
\* hold what the second argument held at entry; in memBenchmark the source
\* buffers therefore are all zero, not the initialised values, throughout
\* the two profileCopies calls.
C10_H2HOverwritesSource ==
  /\ (pc = "ret" /\ InH2H) =>
       /\ SameBits(mem[ArgA], entry, n)
       /\ SameBits(mem[ArgB], entry, n)
  /\ (InSuite /\ InCopies) =>
       /\ mem["h_aPageable"] = Zeros
       /\ mem["h_aPinned"] = Zeros

\* the second profileCopies call verifies all-zero buffers
C10_Witness ==
  /\ InSuite
  /\ pc = "pc_verify"
  /\ Phases[phase] = "pinned"
  /\ Iota # Zeros
  /\ mem["h_aPageable"] = Zeros
  /\ mem["h_aPinned"] = Zeros
  /\ mem["h_bPinned"] = Zeros
====
